---- MODULE Spec2Model ----
(***************************************************************************)
(* Recursive radix-k permutation networks.                                 *)
(*                                                                         *)
(*   CleanKWayNetwork  src/clean_kway_network.py  (contiguous chunks)      *)
(*   KWayNetwork       src/waksman_analysis.py    (group routing)          *)
(*                                                                         *)
(* Python lists are sequences; a Python index i is the TLA+ index i + 1.   *)
(* start, pos, depth and the entries of a switch keep Python's 0-based     *)
(* values.  A switch table (a dict) is a function from keys to switches.   *)
(***************************************************************************)
EXTENDS Integers, Sequences, FiniteSets, TLC

VARIABLES
    n,              \* self.n
    k,              \* self.k
    switches,       \* self.switches
    depth_counter,  \* self.depth_counter
    op,             \* the method called last on the object
    passed,         \* the array the last call was given, as it was at the call
    array,          \* that array of the caller after the call
    result,         \* the list the last call returned
    valid,          \* the truth value the last call returned
    exc,            \* the exception the last call raised, "none" if it returned
    permVec,        \* what get_permutation returned first since the last build
    built,          \* set_random_switches has run to its end on the object
    size,           \* the argument of _calculate_group_sizes
    groups,         \* the list _calculate_group_sizes returned
    input_pos,      \* the argument of KWayNetwork.route
    final_pos,      \* the position KWayNetwork.route returned
    nets,           \* two network objects built side by side
    tape,           \* the outputs the module-level random generator has given so far
    frame,          \* a recursive call in progress: its function and arguments
    waks            \* two Waksman shuffler objects and the shuffle call of each

vars == <<n, k, switches, depth_counter, op, passed, array, result, valid, exc,
          permVec, built, size, groups, input_pos, final_pos, nets, tape, frame,
          waks>>

netVars == <<n, k, switches, depth_counter, op, passed, array, result, valid, exc,
             permVec, built>>
groupVars == <<size, groups>>
routeVars == <<input_pos, final_pos>>
pairVars == <<nets, tape>>
callVars == <<frame>>
waksVars == <<waks>>

(***************************************************************************)
(* Bounds of the model.                                                    *)
(***************************************************************************)
MaxN == 4
MaxK == 3
RecursionLimit == 4
GroupMaxSize == 12
GroupMaxK == 5
PairMaxN == 3
PairMaxK == 2
CallMaxN == 20
CallMaxK == 4
RebuildMaxN == 4
RebuildMaxK == 2
WaksMaxLen == 7
WaksMaxLevel == 3
WaksMaxPosition == 120

\* permVec before the first get_permutation of a build.
None == <<-1>>

(***************************************************************************)
(* Python built-ins.                                                       *)
(***************************************************************************)
Min(a, b) == IF a <= b THEN a ELSE b

\* list(range(m))
Range(m) == [i \in 1..(IF m > 0 THEN m ELSE 0) |-> i - 1]

RECURSIVE Fact(_)
Fact(m) == IF m <= 1 THEN 1 ELSE m * Fact(m - 1)

RECURSIVE SeqSum(_)
SeqSum(s) == IF s = <<>> THEN 0 ELSE Head(s) + SeqSum(Tail(s))

RECURSIVE SeqMax(_)
SeqMax(s) == IF Len(s) = 1 THEN s[1]
             ELSE LET m == SeqMax(Tail(s)) IN IF s[1] >= m THEN s[1] ELSE m

\* sorted(perm) == list(range(m)): every value of 0..m-1 exactly once
IsPermutation(s, m) ==
    /\ Len(s) = m
    /\ \A v \in 0..(m - 1) : Cardinality({i \in 1..Len(s) : s[i] = v}) = 1

\* The number of times v occurs in s.
Count(s, v) == Cardinality({i \in 1..Len(s) : s[i] = v})

\* A lookup whose default comes back reversed when the key is missing.
Get_reversedDefault(sw, key, default) ==
    IF key \in DOMAIN sw THEN sw[key]
    ELSE [i \in 1..Len(default) |-> default[Len(default) + 1 - i]]

\* dict.get(key, default)
Get(sw, key, default) == IF key \in DOMAIN sw THEN sw[key] ELSE default

\* sw[key] = perm
Put(sw, key, perm) == [x \in (DOMAIN sw) \cup {key} |-> IF x = key THEN perm ELSE sw[x]]

\* random.shuffle(x): for i in reversed(range(1, len(x))): j = randbelow(i + 1);
\* x[i], x[j] = x[j], x[i].  raw holds the draws, the one for the largest i in
\* its lowest digit.
RECURSIVE ShuffleFrom(_, _, _)
ShuffleFrom(x, i, raw) ==
    IF i < 1 THEN x
    ELSE LET j == raw % (i + 1)
             y == [x EXCEPT ![i + 1] = x[j + 1], ![j + 1] = x[i + 1]]
         IN ShuffleFrom(y, i - 1, raw \div (i + 1))

\* A shuffle that only rotates the list: len(x) outcomes instead of len(x)!.
RandomShuffle_rotate(x, raw) == [i \in 1..Len(x) |-> x[((i - 1 + raw) % Len(x)) + 1]]

RandomShuffle(x, raw) == ShuffleFrom(x, Len(x) - 1, raw)

\* The draws that give the distinct outcomes of one shuffle of m elements.
Raws(m) == 0..(Fact(m) - 1)

(***************************************************************************)
(* CleanKWayNetwork._calculate_group_sizes                                 *)
(***************************************************************************)
CalculateGroupSizes_short(kk, sz) ==
    LET base_size == sz \div kk
        remainder == sz % kk
    IN [i \in 1..kk |-> IF (i - 1) <= remainder THEN base_size + 1
                        ELSE base_size]

CalculateGroupSizes(kk, sz) ==
    LET base_size == sz \div kk
        remainder == sz % kk
    IN [i \in 1..kk |-> IF (i - 1) < remainder THEN base_size + 1
                        ELSE IF base_size > 0 THEN base_size
                        ELSE 0]

(***************************************************************************)
(* CleanKWayNetwork._generate_switches_recursive: the writes                *)
(* self.switches[key] = perm it makes, in order, each with the length of   *)
(* the list it shuffles.  A write of length 0 stands for the exception     *)
(* that ends the run, named in its key: range() with step 0, or a call     *)
(* deeper than the interpreter's recursion limit.                          *)
(***************************************************************************)
Raise(depth, start, what) == << [key |-> <<depth, start, what>>, len |-> 0] >>

\* An output switch is recorded for a slot position that several groups reach.
RecordsOutput_any(active_groups) == active_groups > 0

\* if active_groups > 1
RecordsOutput(active_groups) == active_groups > 1

RECURSIVE GenerateSwitchesRecursive(_, _, _, _)
RECURSIVE GenerateGroups(_, _, _, _, _)

GenerateSwitchesRecursive(kk, start, sz, depth) ==
    IF depth > RecursionLimit THEN Raise(depth, start, "RecursionError")
    ELSE IF sz <= 1 THEN <<>>
    ELSE IF sz <= kk THEN << [key |-> <<depth, start, "base">>, len |-> sz] >>
    ELSE IF kk = 0 THEN Raise(depth, start, "ValueError")
    ELSE
        LET chunks == (sz + kk - 1) \div kk
            inputs == [c \in 1..chunks |->
                         [key |-> <<depth, start + (c - 1) * kk, "input">>,
                          len |-> Min(kk, sz - (c - 1) * kk)]]
            gs == CalculateGroupSizes(kk, sz)
            max_group_size == SeqMax(gs)
            active(pos) == Cardinality({g \in 1..Len(gs) : pos < gs[g]})
            outputs == [p \in 1..max_group_size |->
                          [key |-> <<depth, start, "output", p - 1>>,
                           len |-> active(p - 1)]]
            recorded == SelectSeq(outputs, LAMBDA w : RecordsOutput(w.len))
        IN inputs \o recorded \o GenerateGroups(kk, gs, 1, start, depth)

\* The groups all generated at the start of the first: group_start never advanced.
GenerateGroups_sameStart(kk, gs, g, group_start, depth) ==
    IF g > Len(gs) THEN <<>>
    ELSE IF gs[g] > 0
         THEN GenerateSwitchesRecursive(kk, group_start, gs[g], depth + 1)
              \o GenerateGroups(kk, gs, g + 1, group_start, depth)
         ELSE GenerateGroups(kk, gs, g + 1, group_start, depth)

\* for group_size in groups: if group_size > 0: recurse; group_start += group_size
GenerateGroups(kk, gs, g, group_start, depth) ==
    IF g > Len(gs) THEN <<>>
    ELSE IF gs[g] > 0
         THEN GenerateSwitchesRecursive(kk, group_start, gs[g], depth + 1)
              \o GenerateGroups(kk, gs, g + 1, group_start + gs[g], depth)
         ELSE GenerateGroups(kk, gs, g + 1, group_start, depth)

\* The writes made before the run ends, and the exception that ends it.
RECURSIVE Executed(_)
Executed(ws) ==
    IF ws = <<>> \/ Head(ws).len = 0 THEN <<>>
    ELSE <<Head(ws)>> \o Executed(Tail(ws))

Raised(ws) ==
    IF Len(Executed(ws)) = Len(ws) THEN "none"
    ELSE ws[Len(Executed(ws)) + 1].key[3]

\* One draw per write: every outcome the shuffles of one run can have.
RECURSIVE DrawSeqs(_)
DrawSeqs(ws) ==
    IF ws = <<>> THEN {<<>>}
    ELSE {<<r>> \o d : r \in Raws(Head(ws).len), d \in DrawSeqs(Tail(ws))}

\* perm = list(range(len)); random.shuffle(perm); self.switches[key] = perm
RECURSIVE ApplyWrites(_, _, _)
\* A switch stored only when its shuffle moved something.
ApplyWrites_skipIdentity(sw, ws, raws) ==
    IF ws = <<>> THEN sw
    ELSE ApplyWrites(IF RandomShuffle(Range(Head(ws).len), Head(raws)) = Range(Head(ws).len)
                     THEN sw
                     ELSE Put(sw, Head(ws).key,
                              RandomShuffle(Range(Head(ws).len), Head(raws))),
                     Tail(ws), Tail(raws))

ApplyWrites(sw, ws, raws) ==
    IF ws = <<>> THEN sw
    ELSE ApplyWrites(Put(sw, Head(ws).key, RandomShuffle(Range(Head(ws).len), Head(raws))),
                     Tail(ws), Tail(raws))

(***************************************************************************)
(* CleanKWayNetwork._apply_input_switches                                  *)
(***************************************************************************)
\* for i in range(0, size, self.k): the chunk at i sends chunk[perm[j]] to group j
RECURSIVE DistributeChunks(_, _, _, _, _, _, _)
\* Every group of a chunk given the element the first group gets.
DistributeChunks_sameElement(sw, kk, subarray, start, depth, i, gs) ==
    IF i >= Len(subarray) THEN gs
    ELSE LET chunk == SubSeq(subarray, i + 1, Min(i + kk, Len(subarray)))
             chunk_size == Len(chunk)
             perm == Get(sw, <<depth, start + i, "input">>, Range(chunk_size))
             next == [j \in 1..kk |-> IF j <= chunk_size
                                      THEN Append(gs[j], chunk[perm[1] + 1])
                                      ELSE gs[j]]
         IN DistributeChunks(sw, kk, subarray, start, depth, i + kk, next)

DistributeChunks(sw, kk, subarray, start, depth, i, gs) ==
    IF i >= Len(subarray) THEN gs
    ELSE LET chunk == SubSeq(subarray, i + 1, Min(i + kk, Len(subarray)))
             chunk_size == Len(chunk)
             perm == Get(sw, <<depth, start + i, "input">>, Range(chunk_size))
             next == [j \in 1..kk |-> IF j <= chunk_size
                                      THEN Append(gs[j], chunk[perm[j] + 1])
                                      ELSE gs[j]]
         IN DistributeChunks(sw, kk, subarray, start, depth, i + kk, next)

\* Only the full chunks distributed: the elements of a shorter last chunk dropped.
ApplyInputSwitches_fullChunks(sw, kk, subarray, start, depth) ==
    DistributeChunks(sw, kk, SubSeq(subarray, 1, (Len(subarray) \div kk) * kk),
                     start, depth, 0, [j \in 1..kk |-> <<>>])

ApplyInputSwitches(sw, kk, subarray, start, depth) ==
    DistributeChunks(sw, kk, subarray, start, depth, 0, [j \in 1..kk |-> <<>>])

(***************************************************************************)
(* CleanKWayNetwork._apply_output_switches                                 *)
(***************************************************************************)
\* chunk = [groups[j][pos] for j in range(k) if pos < len(groups[j])]
RECURSIVE CollectSlot(_, _, _)
\* Slot 0 of every group, whatever pos is.
CollectSlot_first(gs, pos, j) ==
    IF j > Len(gs) THEN <<>>
    ELSE (IF pos < Len(gs[j]) THEN <<gs[j][1]>> ELSE <<>>)
         \o CollectSlot(gs, pos, j + 1)

CollectSlot(gs, pos, j) ==
    IF j > Len(gs) THEN <<>>
    ELSE (IF pos < Len(gs[j]) THEN <<gs[j][pos + 1]>> ELSE <<>>)
         \o CollectSlot(gs, pos, j + 1)

RECURSIVE OutputFrom(_, _, _, _, _, _)
\* Every slot passed through as collected, whatever its switch says.
OutputFrom_passThrough(sw, gs, start, depth, pos, max_size) ==
    IF pos >= max_size THEN <<>>
    ELSE CollectSlot(gs, pos, 1) \o OutputFrom(sw, gs, start, depth, pos + 1, max_size)

OutputFrom(sw, gs, start, depth, pos, max_size) ==
    IF pos >= max_size THEN <<>>
    ELSE LET chunk == CollectSlot(gs, pos, 1)
             perm == Get(sw, <<depth, start, "output", pos>>, Range(Len(chunk)))
             shuffled == [i \in 1..Len(chunk) |-> chunk[perm[i] + 1]]
         IN (IF Len(chunk) = 1 THEN chunk ELSE shuffled)
            \o OutputFrom(sw, gs, start, depth, pos + 1, max_size)

ApplyOutputSwitches(sw, gs, start, depth) ==
    OutputFrom(sw, gs, start, depth, 0, SeqMax([j \in 1..Len(gs) |-> Len(gs[j])]))

(***************************************************************************)
(* CleanKWayNetwork._permute_recursive.  The value is the array and the    *)
(* exception raised, "none" when the call returns.                         *)
(***************************************************************************)
\* The part written at the front of the array, whatever start is.
Splice_atFront(arr, start, part) ==
    [i \in 1..Len(arr) |-> IF i <= Len(part) THEN part[i] ELSE arr[i]]

\* array[start:start+len(part)] = part
Splice(arr, start, part) ==
    [i \in 1..Len(arr) |-> IF i > start /\ i <= start + Len(part) THEN part[i - start]
                           ELSE arr[i]]

\* The values looked up in perm instead of the positions.
BaseShuffle_byValue(subarray, perm) ==
    [i \in 1..Len(subarray) |-> perm[(subarray[i] % Len(perm)) + 1]]

\* The switch read as "element i goes to perm[i]" instead of "slot i takes perm[i]".
BaseShuffle_scatter(subarray, perm) ==
    [i \in 1..Len(subarray) |->
        subarray[(CHOOSE j \in 1..Len(perm) : perm[j] = i - 1)]]

\* [subarray[perm[i]] for i in range(size)]
BaseShuffle(subarray, perm) == [i \in 1..Len(subarray) |-> subarray[perm[i] + 1]]

RECURSIVE PermuteRecursive(_, _, _, _, _, _)
RECURSIVE PermuteGroups(_, _, _, _, _, _, _, _)

\* Step 3: result = self._apply_output_switches(groups, start, depth);
\* array[start:start+size] = result
CollectGroups(sw, done, start, depth) ==
    IF done.exc # "none" THEN [array |-> done.array, exc |-> done.exc]
    ELSE [array |-> Splice(done.array, start,
                           ApplyOutputSwitches(sw, done.groups, start, depth)),
          exc |-> "none"]

PermuteRecursive(sw, kk, arr, start, sz, depth) ==
    IF depth > RecursionLimit THEN [array |-> arr, exc |-> "RecursionError"]
    ELSE IF sz <= 1 THEN [array |-> arr, exc |-> "none"]
    ELSE IF sz <= kk
         THEN [array |-> Splice(arr, start,
                                BaseShuffle(SubSeq(arr, start + 1, start + sz),
                                            Get(sw, <<depth, start, "base">>, Range(sz)))),
               exc |-> "none"]
    ELSE IF kk = 0 THEN [array |-> arr, exc |-> "ValueError"]
    ELSE CollectGroups(sw,
                       PermuteGroups(sw, kk, arr,
                                     ApplyInputSwitches(sw, kk, SubSeq(arr, start + 1, start + sz),
                                                        start, depth),
                                     1, 0, start, depth),
                       start, depth)

\* groups[i] = array[start+group_start:start+group_start+len(group)];
\* group_start += len(group)
ReadBack(sw, kk, r, gs, i, group_start, start, depth) ==
    IF r.exc # "none" THEN [array |-> r.array, groups |-> gs, exc |-> r.exc]
    ELSE PermuteGroups(sw, kk, r.array,
                       [gs EXCEPT ![i] = SubSeq(r.array, start + group_start + 1,
                                                start + group_start + Len(gs[i]))],
                       i + 1, group_start + Len(gs[i]), start, depth)

\* for i, group in enumerate(groups): copy the group into the array, permute
\* it there, read it back
PermuteGroups(sw, kk, arr, gs, i, group_start, start, depth) ==
    IF i > Len(gs) THEN [array |-> arr, groups |-> gs, exc |-> "none"]
    ELSE IF Len(gs[i]) = 0
         THEN PermuteGroups(sw, kk, arr, gs, i + 1, group_start, start, depth)
    ELSE ReadBack(sw, kk,
                  PermuteRecursive(sw, kk, Splice(arr, start + group_start, gs[i]),
                                   start + group_start, Len(gs[i]), depth + 1),
                  gs, i, group_start, start, depth)

(***************************************************************************)
(* The life of one CleanKWayNetwork object.                                *)
(***************************************************************************)
\* __init__(n, k) stores what it is given.
Init ==
    /\ n \in -1..MaxN
    /\ k \in 0..MaxK
    /\ switches = <<>>
    /\ depth_counter = 0
    /\ op = "init"
    /\ passed = <<>>
    /\ array = <<>>
    /\ result = <<>>
    /\ valid = FALSE
    /\ exc = "none"
    /\ permVec = None
    /\ built = FALSE
    /\ size = 0
    /\ groups = <<>>
    /\ input_pos = 0
    /\ final_pos = 0
    /\ nets = <<>>
    /\ tape = <<>>
    /\ frame = <<>>
    /\ waks = <<>>

\* self.switches = {} ; self.depth_counter = 0 ; the recursive dry run.
\* Every caller builds a network once, right after constructing it
\* (analyze_network, test_simple_example).
SetRandomSwitches ==
    /\ ~built
    /\ LET ws == GenerateSwitchesRecursive(k, 0, n, 0)
           done == Executed(ws)
       IN \E raws \in DrawSeqs(done) :
           /\ switches' = ApplyWrites(<<>>, done, raws)
           /\ exc' = Raised(ws)
           /\ built' = (Raised(ws) = "none")
    /\ depth_counter' = 0
    /\ op' = "set_random_switches"
    /\ permVec' = None
    /\ passed' = <<>>
    /\ array' = <<>>
    /\ result' = <<>>
    /\ valid' = FALSE
    /\ UNCHANGED <<n, k>>
    /\ UNCHANGED <<groupVars, routeVars, pairVars, callVars, waksVars>>

\* if len(array) != self.n: raise ValueError
\* The empty array refused as well.
SizeMismatch_orEmpty(a, nn) == Len(a) # nn \/ Len(a) = 0

SizeMismatch_shortOnly(a, nn) == Len(a) < nn

SizeMismatch(a, nn) == Len(a) # nn

\* The recursion run on the list of the caller itself.
CallerArray_inPlace(a, work) == work

\* result = array.copy(): the recursion writes into the copy, the list of the
\* caller keeps what it held.
CallerArray(a, work) == a

\* The arrays a caller hands over: of the right length, the identity (all values
\* distinct) and the arrays that hold one 1 among 0s or only 0s (duplicates);
\* and one array that is shorter, one that is longer.
Arrays(nn) ==
    {[i \in 1..(IF nn > 0 THEN nn ELSE 0) |-> IF i = h THEN 1 ELSE 0] : h \in 0..nn}
    \cup {Range(nn), Range(nn - 1), Range(nn + 1)}

\* What apply_permutation does to everything but the switch table.
ApplyCall(a) ==
    /\ op' = "apply_permutation"
    /\ passed' = a
    /\ IF SizeMismatch(a, n)
       THEN /\ exc' = "ValueError"
            /\ array' = a
            /\ result' = <<>>
            /\ UNCHANGED depth_counter
       ELSE \E r \in {PermuteRecursive(switches, k, a, 0, n, 0)} :
               /\ depth_counter' = 0
               /\ exc' = r.exc
               /\ array' = CallerArray(a, r.array)
               /\ result' = IF r.exc = "none" THEN r.array ELSE <<>>
    /\ valid' = FALSE
    /\ UNCHANGED <<n, k, permVec, built>>
    /\ UNCHANGED <<groupVars, routeVars, pairVars, callVars, waksVars>>

\* The table emptied once the size check has passed, as set_random_switches empties it.
ApplyPermutation_reset(a) ==
    /\ ApplyCall(a)
    /\ switches' = IF SizeMismatch(a, n) THEN switches ELSE <<>>

\* apply_permutation reads self.switches and never assigns to it.
ApplyPermutation(a) ==
    /\ ApplyCall(a)
    /\ UNCHANGED switches

\* identity = list(range(self.n)); permuted = self.apply_permutation(identity)
PermutationOf(sw, kk, nn) ==
    IF SizeMismatch(Range(nn), nn) THEN [array |-> Range(nn), exc |-> "ValueError"]
    ELSE PermuteRecursive(sw, kk, Range(nn), 0, nn, 0)

GetPermutation ==
    \E r \in {PermutationOf(switches, k, n)} :
       /\ op' = "get_permutation"
       /\ exc' = r.exc
       /\ depth_counter' = IF SizeMismatch(Range(n), n) THEN depth_counter ELSE 0
       /\ result' = IF r.exc = "none" THEN r.array ELSE <<>>
       /\ permVec' = IF r.exc = "none" /\ permVec = None THEN r.array ELSE permVec
       /\ passed' = <<>>
       /\ array' = <<>>
       /\ valid' = FALSE
       /\ UNCHANGED <<n, k, switches, built>>
       /\ UNCHANGED <<groupVars, routeVars, pairVars, callVars, waksVars>>

\* perm = self.get_permutation(); return sorted(perm) == list(range(self.n))
CheckValidity ==
    \E r \in {PermutationOf(switches, k, n)} :
       /\ op' = "check_validity"
       /\ exc' = r.exc
       /\ depth_counter' = IF SizeMismatch(Range(n), n) THEN depth_counter ELSE 0
       /\ valid' = IF r.exc = "none" THEN IsPermutation(r.array, n) ELSE FALSE
       /\ result' = <<>>
       /\ passed' = <<>>
       /\ array' = <<>>
       /\ UNCHANGED <<n, k, switches, permVec, built>>
       /\ UNCHANGED <<groupVars, routeVars, pairVars, callVars, waksVars>>

Next ==
    \/ SetRandomSwitches
    \/ \E a \in Arrays(n) : ApplyPermutation(a)
    \/ GetPermutation
    \/ CheckValidity

Spec == Init /\ [][Next]_vars

(***************************************************************************)
(* The keys _permute_recursive looks up in self.switches, from its own     *)
(* lookups: the base key, one input key per chunk, one output key per      *)
(* slot position that holds more than one element.                         *)
(***************************************************************************)
RECURSIVE LookedUp(_, _, _, _)
LookedUp(kk, start, sz, depth) ==
    IF depth > RecursionLimit \/ sz <= 1 THEN {}
    ELSE IF sz <= kk THEN {<<depth, start, "base">>}
    ELSE IF kk = 0 THEN {}
    ELSE
        LET gs == ApplyInputSwitches(<<>>, kk, Range(sz), start, depth)
            lens == [j \in 1..kk |-> Len(gs[j])]
            offset(j) == SeqSum(SubSeq(lens, 1, j - 1))
        IN {<<depth, start + i, "input">> : i \in {c * kk : c \in 0..((sz - 1) \div kk)}}
           \cup {<<depth, start, "output", pos>> :
                    pos \in {p \in 0..(SeqMax(lens) - 1) : Len(CollectSlot(gs, p, 1)) # 1}}
           \cup UNION {LookedUp(kk, start + offset(j), lens[j], depth + 1) :
                          j \in {g \in 1..kk : lens[g] > 0}}

\* The last call was an apply_permutation that got past the size check.
Applied == op = "apply_permutation" /\ ~SizeMismatch(passed, n)

(***************************************************************************)
(* C1: for n >= 0 and k >= 2, whatever the shuffles of set_random_switches *)
(* drew, get_permutation returns every value of 0..n-1 exactly once and    *)
(* check_validity returns True.                                            *)
(***************************************************************************)
C1_ValidPermutation ==
    (built /\ n >= 0 /\ k >= 2) =>
        /\ (op = "get_permutation" => exc = "none" /\ IsPermutation(result, n))
        /\ (op = "check_validity" => exc = "none" /\ valid)

C1_Witness ==
    /\ built /\ k >= 2 /\ n > k
    /\ op = "get_permutation"
    /\ IsPermutation(result, n)
    /\ result # Range(n)

(***************************************************************************)
(* C3: payload independence.  With P the vector get_permutation gives for  *)
(* the table, apply_permutation(A)[j] = A[P[j]] for every array A of       *)
(* length n and every j.                                                   *)
(***************************************************************************)
C3_PayloadIndependence ==
    (built /\ Applied /\ exc = "none") =>
        LET P == PermutationOf(switches, k, n).array
        IN /\ Len(result) = n
           /\ \A j \in 1..n : result[j] = passed[P[j] + 1]

C3_Witness ==
    /\ built /\ Applied /\ exc = "none"
    /\ k >= 2 /\ n > k
    /\ Count(passed, 0) >= 2
    /\ result # passed

(***************************************************************************)
(* C4: once the table is built, apply_permutation, get_permutation and     *)
(* check_validity leave self.switches as it was, and get_permutation       *)
(* returns the vector it returned the first time.                          *)
(***************************************************************************)
C4_TableReadOnly ==
    [][(built /\ op' \in {"apply_permutation", "get_permutation", "check_validity"}) =>
          /\ switches' = switches
          /\ (op' = "get_permutation" /\ permVec # None) =>
                 (exc' = "none" /\ result' = permVec)]_vars

C4_Witness ==
    /\ built /\ n > k /\ k >= 2
    /\ op = "get_permutation"
    /\ array = <<>>
    /\ result = permVec
    /\ result # Range(n)
    /\ DOMAIN switches = LookedUp(k, 0, n, 0)

(***************************************************************************)
(* C5: an apply_permutation that needs a switch whose key is not in the    *)
(* table fails; it never goes on with an identity permutation instead.     *)
(***************************************************************************)
C5_MissingSwitchFails ==
    (Applied /\ LookedUp(k, 0, n, 0) \ DOMAIN switches # {}) => exc # "none"

(***************************************************************************)
(* C6: a network with k < 2 or n < 0 is rejected by the constructor, so no *)
(* method is ever called on an object with such n and k.                   *)
(***************************************************************************)
C6_InvalidConfigRejected ==
    (k < 2 \/ n < 0) => op \notin {"set_random_switches", "apply_permutation"}

(***************************************************************************)
(* C7: apply_permutation on an array whose length is not n raises          *)
(* ValueError and changes neither the switch table nor the array.          *)
(***************************************************************************)
C7_SizeMismatchRaises ==
    [][(op' = "apply_permutation" /\ Len(passed') # n) =>
          /\ exc' = "ValueError"
          /\ array' = passed'
          /\ switches' = switches]_vars

C7_Witness ==
    /\ built /\ switches # <<>>
    /\ op = "apply_permutation"
    /\ Len(passed) = n + 1
    /\ exc = "ValueError"
    /\ array = passed

(***************************************************************************)
(* C8, as claimed: every switch that set_random_switches stores is a       *)
(* permutation of 0..m-1 with 2 <= m <= k, whatever its role.              *)
(***************************************************************************)
C8_SwitchLengthTwoToK ==
    (built /\ n >= 0 /\ k >= 2) =>
        \A key \in DOMAIN switches :
            /\ IsPermutation(switches[key], Len(switches[key]))
            /\ 2 <= Len(switches[key]) /\ Len(switches[key]) <= k

(***************************************************************************)
(* C8, amended: every switch that set_random_switches stores is a          *)
(* permutation of 0..m-1 with 1 <= m <= k; Base and Output switches have   *)
(* m >= 2, only an Input switch can have m = 1.                            *)
(***************************************************************************)
C8_SwitchesArePermutations ==
    (built /\ n >= 0 /\ k >= 2) =>
        \A key \in DOMAIN switches :
            LET m == Len(switches[key])
            IN /\ IsPermutation(switches[key], m)
               /\ 1 <= m /\ m <= k
               /\ (key[3] # "input" => m >= 2)

C8_Witness ==
    /\ built /\ n >= 0 /\ k >= 2
    /\ \E k1, k2, k3 \in DOMAIN switches :
          /\ k1[3] = "base" /\ k2[3] = "input" /\ k3[3] = "output"
          /\ Len(switches[k2]) = 1
          /\ switches[k3] # Range(Len(switches[k3]))

(***************************************************************************)
(* _calculate_group_sizes on its own: a network of radix k splits every    *)
(* size the recursion can hand it, from 0 up to n.                         *)
(***************************************************************************)
InitGroups ==
    /\ n \in 0..GroupMaxSize
    /\ k \in 1..GroupMaxK
    /\ switches = <<>>
    /\ depth_counter = 0
    /\ op = "init"
    /\ passed = <<>>
    /\ array = <<>>
    /\ result = <<>>
    /\ valid = FALSE
    /\ exc = "none"
    /\ permVec = None
    /\ built = FALSE
    /\ size = 0
    /\ groups = <<>>
    /\ input_pos = 0
    /\ final_pos = 0
    /\ nets = <<>>
    /\ tape = <<>>
    /\ frame = <<>>
    /\ waks = <<>>

CalculateGroupSizesCall(sz) ==
    /\ op' = "_calculate_group_sizes"
    /\ size' = sz
    /\ groups' = CalculateGroupSizes(k, sz)
    /\ UNCHANGED <<n, k, switches, depth_counter, passed, array, result, valid, exc,
                   permVec, built>>
    /\ UNCHANGED <<routeVars, pairVars, callVars, waksVars>>

NextGroups == \E sz \in 0..n : CalculateGroupSizesCall(sz)

SpecGroups == InitGroups /\ [][NextGroups]_vars

(***************************************************************************)
(* C10: _calculate_group_sizes(size) returns k integers >= 0 that sum to   *)
(* size; the first size mod k are size div k + 1, the others size div k;   *)
(* a 0 occurs only when size < k.  For k = 5 it splits 11 as 3,2,2,2,2     *)
(* and 10 as 2,2,2,2,2.                                                    *)
(***************************************************************************)
C10_GroupSizes ==
    (op = "_calculate_group_sizes") =>
        /\ Len(groups) = k
        /\ \A i \in 1..k : groups[i] >= 0
        /\ SeqSum(groups) = size
        /\ \A i \in 1..k : groups[i] = (size \div k) + (IF i <= size % k THEN 1 ELSE 0)
        /\ ((\E i \in 1..k : groups[i] = 0) => size < k)
        /\ (size = 11 /\ k = 5 => groups = <<3, 2, 2, 2, 2>>)
        /\ (size = 10 /\ k = 5 => groups = <<2, 2, 2, 2, 2>>)

C10_Witness ==
    /\ op = "_calculate_group_sizes"
    /\ size = 11 /\ k = 5
    /\ groups = <<3, 2, 2, 2, 2>>

(***************************************************************************)
(* KWayNetwork (src/waksman_analysis.py).  Its keys are (depth, start,     *)
(* size) for the switch of a region of at most k elements, written here    *)
(* <<depth, start, "size", size>>, and (depth, start, 'groups').           *)
(***************************************************************************)
\* group_sizes = [base_size + (1 if i < remainder else 0) for i in range(k)];
\* non_empty_groups = [s for s in group_sizes if s > 0]
NonEmptyGroups(kk, sz) ==
    SelectSeq([i \in 1..kk |-> (sz \div kk) + (IF i - 1 < sz % kk THEN 1 ELSE 0)],
              LAMBDA g : g > 0)

\* KWayNetwork._set_random_recursive: its writes, in order
RECURSIVE SetRandomRecursive(_, _, _, _)
RECURSIVE SetRandomGroups(_, _, _, _, _)

SetRandomRecursive(kk, start, sz, depth) ==
    IF sz <= 1 THEN <<>>
    ELSE IF sz <= kk THEN << [key |-> <<depth, start, "size", sz>>, len |-> sz] >>
    ELSE LET non_empty_groups == NonEmptyGroups(kk, sz)
         IN << [key |-> <<depth, start, "groups">>, len |-> Len(non_empty_groups)] >>
            \o SetRandomGroups(kk, non_empty_groups, 1, start, depth)

\* for gsize in non_empty_groups: recurse at curr_pos; curr_pos += gsize
SetRandomGroups(kk, gs, g, curr_pos, depth) ==
    IF g > Len(gs) THEN <<>>
    ELSE SetRandomRecursive(kk, curr_pos, gs[g], depth + 1)
         \o SetRandomGroups(kk, gs, g + 1, curr_pos + gs[g], depth)

\* for i, gsize in enumerate(non_empty_groups): if local_pos < offset + gsize:
\* group_idx = i; break.  group_idx stays 0 when no group holds local_pos.
GroupIndex(gs, local_pos) ==
    LET holds == {i \in 0..(Len(gs) - 1) : local_pos < SeqSum(SubSeq(gs, 1, i + 1))}
    IN IF holds = {} THEN 0 ELSE CHOOSE i \in holds : \A j \in holds : i <= j

\* for i in range(size): if perm[i] == local_pos: return start + i
\* return pos
BaseRoute(perm, pos, start) ==
    LET at == {i \in 0..(Len(perm) - 1) : perm[i + 1] = pos - start}
    IN IF at = {} THEN pos ELSE start + (CHOOSE i \in at : \A j \in at : i <= j)

\* Every position routed to itself.
RouteRecursive_stay(sw, kk, pos, start, sz, depth) == pos

\* KWayNetwork._route_recursive, on a table that holds every key it reads
RECURSIVE RouteRecursive(_, _, _, _, _, _)
RouteRecursive(sw, kk, pos, start, sz, depth) ==
    IF sz <= 1 THEN pos
    ELSE IF sz <= kk THEN BaseRoute(sw[<<depth, start, "size", sz>>], pos, start)
    ELSE
        LET non_empty_groups == NonEmptyGroups(kk, sz)
            local_pos == pos - start
            group_idx == GroupIndex(non_empty_groups, local_pos)
            group_perm == sw[<<depth, start, "groups">>]
            new_group_idx == group_perm[group_idx + 1]
            new_offset == SeqSum(SubSeq(non_empty_groups, 1, new_group_idx))
            within_group_pos == local_pos - SeqSum(SubSeq(non_empty_groups, 1, group_idx))
        IN RouteRecursive(sw, kk, start + new_offset + within_group_pos,
                          start + new_offset, non_empty_groups[new_group_idx + 1],
                          depth + 1)

\* KWayNetwork.route
Route(sw, kk, nn, i) == RouteRecursive(sw, kk, i, 0, nn, 0)

\* KWayNetwork.apply_permutation: result = np.zeros_like(input_array);
\* for i in range(n): result[self.route(i)] = input_array[i].  An index past
\* the end of result raises IndexError.
RECURSIVE ScatterFrom(_, _, _, _, _, _)
ScatterFrom(sw, kk, nn, a, i, res) ==
    IF i >= Len(a) THEN [array |-> res, exc |-> "none"]
    ELSE LET at == Route(sw, kk, nn, i)
         IN IF at >= Len(a) THEN [array |-> res, exc |-> "IndexError"]
            ELSE ScatterFrom(sw, kk, nn, a, i + 1, [res EXCEPT ![at + 1] = a[i + 1]])

KWayApply(sw, kk, nn, a) ==
    IF Len(a) <= 1 THEN [array |-> a, exc |-> "none"]
    ELSE ScatterFrom(sw, kk, nn, a, 0, [i \in 1..Len(a) |-> 0])

\* perm.append(self.route(i)) for i in range(self.n)
KWayPermutation(sw, kk, nn) == [i \in 1..(IF nn > 0 THEN nn ELSE 0) |-> Route(sw, kk, nn, i - 1)]

(***************************************************************************)
(* The life of one KWayNetwork object: built once, as by every caller      *)
(* (analyze_kway_network, test_odd_sizes), then queried in any order.      *)
(***************************************************************************)
InitKWay ==
    /\ n \in 0..MaxN
    /\ k \in 2..MaxK
    /\ switches = <<>>
    /\ depth_counter = 0
    /\ op = "init"
    /\ passed = <<>>
    /\ array = <<>>
    /\ result = <<>>
    /\ valid = FALSE
    /\ exc = "none"
    /\ permVec = None
    /\ built = FALSE
    /\ size = 0
    /\ groups = <<>>
    /\ input_pos = 0
    /\ final_pos = 0
    /\ nets = <<>>
    /\ tape = <<>>
    /\ frame = <<>>
    /\ waks = <<>>

KWaySetRandomSwitches ==
    /\ ~built
    /\ \E raws \in DrawSeqs(SetRandomRecursive(k, 0, n, 0)) :
           switches' = ApplyWrites(<<>>, SetRandomRecursive(k, 0, n, 0), raws)
    /\ built' = TRUE
    /\ op' = "set_random_switches"
    /\ exc' = "none"
    /\ passed' = <<>>
    /\ array' = <<>>
    /\ result' = <<>>
    /\ valid' = FALSE
    /\ input_pos' = 0
    /\ final_pos' = 0
    /\ UNCHANGED <<n, k, depth_counter, permVec>>
    /\ UNCHANGED <<groupVars, pairVars, callVars, waksVars>>

KWayRoute(i) ==
    /\ built
    /\ op' = "route"
    /\ input_pos' = i
    /\ final_pos' = Route(switches, k, n, i)
    /\ exc' = "none"
    /\ passed' = <<>>
    /\ array' = <<>>
    /\ result' = <<>>
    /\ valid' = FALSE
    /\ UNCHANGED <<n, k, switches, depth_counter, permVec, built>>
    /\ UNCHANGED <<groupVars, pairVars, callVars, waksVars>>

KWayApplyPermutation(a) ==
    /\ built
    /\ op' = "apply_permutation"
    /\ passed' = a
    /\ array' = a
    /\ \E r \in {KWayApply(switches, k, n, a)} :
           /\ exc' = r.exc
           /\ result' = IF r.exc = "none" THEN r.array ELSE <<>>
    /\ valid' = FALSE
    /\ input_pos' = 0
    /\ final_pos' = 0
    /\ UNCHANGED <<n, k, switches, depth_counter, permVec, built>>
    /\ UNCHANGED <<groupVars, pairVars, callVars, waksVars>>

KWayGetPermutation ==
    /\ built
    /\ op' = "get_permutation"
    /\ result' = KWayPermutation(switches, k, n)
    /\ exc' = "none"
    /\ passed' = <<>>
    /\ array' = <<>>
    /\ valid' = FALSE
    /\ input_pos' = 0
    /\ final_pos' = 0
    /\ UNCHANGED <<n, k, switches, depth_counter, permVec, built>>
    /\ UNCHANGED <<groupVars, pairVars, callVars, waksVars>>

KWayCheckValidity ==
    /\ built
    /\ op' = "check_validity"
    /\ valid' = IsPermutation(KWayPermutation(switches, k, n), n)
    /\ exc' = "none"
    /\ passed' = <<>>
    /\ array' = <<>>
    /\ result' = <<>>
    /\ input_pos' = 0
    /\ final_pos' = 0
    /\ UNCHANGED <<n, k, switches, depth_counter, permVec, built>>
    /\ UNCHANGED <<groupVars, pairVars, callVars, waksVars>>

NextKWay ==
    \/ KWaySetRandomSwitches
    \/ \E i \in 0..(n - 1) : KWayRoute(i)
    \/ \E a \in Arrays(n) : KWayApplyPermutation(a)
    \/ KWayGetPermutation
    \/ KWayCheckValidity

SpecKWay == InitKWay /\ [][NextKWay]_vars

(***************************************************************************)
(* C2: on a KWayNetwork built by set_random_switches, route(i) is element  *)
(* i of apply_permutation(identity), for every i in 0..n-1.                *)
(***************************************************************************)
C2_RouteAgreesWithApply ==
    (built /\ op = "apply_permutation" /\ passed = Range(n)) =>
        /\ exc = "none"
        /\ \A i \in 0..(n - 1) : Route(switches, k, n, i) = result[i + 1]

(***************************************************************************)
(* Two CleanKWayNetwork objects built and applied side by side.  Every     *)
(* random.shuffle of either object draws from the one generator of the     *)
(* random module; tape holds what the generator has given out, in order.   *)
(* A build is at one of its shuffles at a time: todo holds the writes of   *)
(* _generate_switches_recursive that are still to come.                    *)
(***************************************************************************)
Inst == {1, 2}

InitPair ==
    /\ nets \in [Inst -> {[n |-> nn, k |-> kk, switches |-> <<>>, pc |-> "new",
                           todo |-> <<>>, perm |-> <<>>] :
                             nn \in 0..PairMaxN, kk \in 2..PairMaxK}]
    /\ tape = <<>>
    /\ frame = <<>>
    /\ waks = <<>>
    /\ n = 0
    /\ k = 0
    /\ switches = <<>>
    /\ depth_counter = 0
    /\ op = "init"
    /\ passed = <<>>
    /\ array = <<>>
    /\ result = <<>>
    /\ valid = FALSE
    /\ exc = "none"
    /\ permVec = None
    /\ built = FALSE
    /\ size = 0
    /\ groups = <<>>
    /\ input_pos = 0
    /\ final_pos = 0

\* set_random_switches is entered: self.switches = {}
PairBegin(i) ==
    /\ nets[i].pc = "new"
    /\ LET ws == Executed(GenerateSwitchesRecursive(nets[i].k, 0, nets[i].n, 0))
       IN nets' = [nets EXCEPT ![i].switches = <<>>,
                               ![i].todo = ws,
                               ![i].pc = IF ws = <<>> THEN "built" ELSE "building"]
    /\ UNCHANGED tape
    /\ UNCHANGED <<netVars, groupVars, routeVars, callVars, waksVars>>

\* perm = list(range(len)); random.shuffle(perm); self.switches[key] = perm
PairShuffle(i) ==
    /\ nets[i].pc = "building"
    /\ LET w == Head(nets[i].todo)
       IN \E raw \in Raws(w.len) :
           /\ tape' = Append(tape, raw)
           /\ nets' = [nets EXCEPT
                         ![i].switches = Put(nets[i].switches, w.key,
                                             RandomShuffle(Range(w.len), raw)),
                         ![i].todo = Tail(nets[i].todo),
                         ![i].pc = IF Len(nets[i].todo) = 1 THEN "built" ELSE "building"]
    /\ UNCHANGED <<netVars, groupVars, routeVars, callVars, waksVars>>

\* perm = network.get_permutation()
PairApply(i) ==
    /\ nets[i].pc = "built"
    /\ nets' = [nets EXCEPT
                  ![i].perm = PermutationOf(nets[i].switches, nets[i].k, nets[i].n).array,
                  ![i].pc = "applied"]
    /\ UNCHANGED tape
    /\ UNCHANGED <<netVars, groupVars, routeVars, callVars, waksVars>>

NextPair == \E i \in Inst : PairBegin(i) \/ PairShuffle(i) \/ PairApply(i)

SpecPair == InitPair /\ [][NextPair]_vars

\* The table object i gets when it is built alone on a generator that gives
\* out the same values: its shuffles take the first values of the tape.
AloneTable(i) ==
    LET ws == Executed(GenerateSwitchesRecursive(nets[i].k, 0, nets[i].n, 0))
    IN ApplyWrites(<<>>, ws, SubSeq(tape, 1, Len(ws)))

(***************************************************************************)
(* C9: two network objects share no mutable state.  However the shuffles   *)
(* of their builds and their applies are interleaved, each ends with the   *)
(* switch table and the permutation it gets when it runs alone on the same *)
(* seeded random source.                                                   *)
(***************************************************************************)
C9_InstancesIndependent ==
    (\A i \in Inst : nets[i].pc = "applied") =>
        \A i \in Inst :
            /\ nets[i].switches = AloneTable(i)
            /\ nets[i].perm = PermutationOf(AloneTable(i), nets[i].k, nets[i].n).array

(***************************************************************************)
(* C11: for 2 <= n <= k every permutation p of 0..n-1 is reachable: there  *)
(* are draws of the shuffles of set_random_switches for which              *)
(* get_permutation returns p.                                              *)
(***************************************************************************)
C11_AllPermutationsReachable ==
    (2 <= n /\ n <= k) =>
        \A p \in {q \in [1..n -> 0..(n - 1)] : IsPermutation(q, n)} :
            \E raws \in DrawSeqs(Executed(GenerateSwitchesRecursive(k, 0, n, 0))) :
                PermutationOf(ApplyWrites(<<>>, Executed(GenerateSwitchesRecursive(k, 0, n, 0)),
                                          raws), k, n)
                    = [array |-> p, exc |-> "none"]

C11_Witness ==
    /\ built /\ n = 3 /\ k = 3
    /\ op = "get_permutation"
    /\ DOMAIN switches = {<<0, 0, "base">>}
    /\ result = <<1, 2, 0>>

(***************************************************************************)
(* C12: for n = 0 set_random_switches records no switch and                *)
(* get_permutation returns the empty list without an error; for n = 1 it   *)
(* records no switch and get_permutation returns [0], for every build.     *)
(***************************************************************************)
C12_BoundarySizes ==
    (built /\ n \in {0, 1}) =>
        /\ switches = <<>>
        /\ (op = "get_permutation" =>
               /\ exc = "none"
               /\ (n = 0 => result = <<>>)
               /\ (n = 1 => result = <<0>>))

C12_Witness ==
    /\ built /\ n = 0 /\ k >= 2
    /\ switches = <<>>
    /\ op = "get_permutation"
    /\ exc = "none"
    /\ result = <<>>

(***************************************************************************)
(* C13: within one run of set_random_switches no key is written twice, so  *)
(* the table holds as many keys as switches were drawn.                    *)
(***************************************************************************)
C13_KeysUnique ==
    (built /\ n >= 0 /\ k >= 2) =>
        LET ws == GenerateSwitchesRecursive(k, 0, n, 0)
        IN /\ \A i, j \in 1..Len(ws) : i # j => ws[i].key # ws[j].key
           /\ Cardinality(DOMAIN switches) = Len(ws)

C13_Witness ==
    /\ built /\ k >= 2 /\ n > k
    /\ Cardinality(DOMAIN switches) = Len(GenerateSwitchesRecursive(k, 0, n, 0))
    /\ \E k1, k2 \in DOMAIN switches :
          /\ k1[3] = "base" /\ k2[3] = "base"
          /\ k1[1] = k2[1] /\ k1[2] # k2[2]
    /\ \E k1, k2 \in DOMAIN switches :
          /\ k1[3] = "input" /\ k2[3] = "output"
          /\ k1[1] = k2[1] /\ k1[2] = k2[2]

(***************************************************************************)
(* The recursion of _generate_switches_recursive and _permute_recursive,   *)
(* one call at a time.  frame is a call in progress: the function, its     *)
(* arguments start, size and depth, and parent, the size of the call that  *)
(* made it (-1 for the call made by set_random_switches or                 *)
(* apply_permutation).                                                     *)
(***************************************************************************)
\* for each group of size > 0: a call (group_start, size of the group, depth + 1);
\* group_start += size of the group
RECURSIVE GroupCalls(_, _, _, _, _)
GroupCalls(sizes, g, group_start, depth, parent) ==
    IF g > Len(sizes) THEN <<>>
    ELSE IF sizes[g] > 0
         THEN << [start |-> group_start, size |-> sizes[g], depth |-> depth + 1,
                  parent |-> parent] >>
              \o GroupCalls(sizes, g + 1, group_start + sizes[g], depth, parent)
         ELSE GroupCalls(sizes, g + 1, group_start, depth, parent)

\* Every group but the first one called on nothing: the first keeps the whole region.
GenerateCalls_wholeRegion(kk, start, sz, depth) ==
    IF sz <= 1 \/ sz <= kk THEN <<>>
    ELSE << [start |-> start, size |-> sz, depth |-> depth + 1, parent |-> sz] >>

\* The calls _generate_switches_recursive(start, size, depth) makes itself.
GenerateCalls(kk, start, sz, depth) ==
    IF sz <= 1 \/ sz <= kk THEN <<>>
    ELSE GroupCalls(CalculateGroupSizes(kk, sz), 1, start, depth, sz)

\* The calls _permute_recursive(array, start, size, depth) makes itself: one
\* for each group _apply_input_switches left non-empty.
PermuteCalls(sw, kk, start, sz, depth) ==
    IF sz <= 1 \/ sz <= kk THEN <<>>
    ELSE LET gs == ApplyInputSwitches(sw, kk, Range(sz), start, depth)
         IN GroupCalls([j \in 1..kk |-> Len(gs[j])], 1, start, depth, sz)

\* The table a run leaves in which every randbelow of every shuffle gives 0:
\* under each key the switch written last.
ZeroTable(ws) ==
    [key \in {ws[i].key : i \in 1..Len(ws)} |->
        LET last == CHOOSE i \in 1..Len(ws) :
                       ws[i].key = key /\ \A j \in (i + 1)..Len(ws) : ws[j].key # key
        IN RandomShuffle(Range(ws[last].len), 0)]

\* The recursion starts on a table that is still empty (set_random_switches is
\* filling it, or apply_permutation runs before any build) or on a built one.
InitCalls ==
    /\ n \in 0..CallMaxN
    /\ k \in 2..CallMaxK
    /\ frame \in {[fn |-> f, start |-> 0, size |-> n, depth |-> 0, parent |-> -1] :
                     f \in {"_generate_switches_recursive", "_permute_recursive"}}
    /\ built \in BOOLEAN
    /\ \E ws \in {GenerateSwitchesRecursive(k, 0, n, 0)} :
          switches = IF built THEN ZeroTable(ws) ELSE <<>>
    /\ depth_counter = 0
    /\ op = "init"
    /\ passed = <<>>
    /\ array = <<>>
    /\ result = <<>>
    /\ valid = FALSE
    /\ exc = "none"
    /\ permVec = None
    /\ size = 0
    /\ groups = <<>>
    /\ input_pos = 0
    /\ final_pos = 0
    /\ nets = <<>>
    /\ tape = <<>>
    /\ waks = <<>>

\* self._generate_switches_recursive(group_start, group_size, depth + 1)
GenerateCall ==
    /\ frame.fn = "_generate_switches_recursive"
    /\ frame.depth <= RecursionLimit
    /\ \E c \in {GenerateCalls(k, frame.start, frame.size, frame.depth)[i] :
                    i \in 1..Len(GenerateCalls(k, frame.start, frame.size, frame.depth))} :
          frame' = [fn |-> frame.fn, start |-> c.start, size |-> c.size,
                    depth |-> c.depth, parent |-> c.parent]
    /\ UNCHANGED <<netVars, groupVars, routeVars, pairVars, waksVars>>

\* array = self._permute_recursive(array, start+group_start, len(group), depth + 1)
PermuteCall ==
    /\ frame.fn = "_permute_recursive"
    /\ frame.depth <= RecursionLimit
    /\ \E c \in {PermuteCalls(switches, k, frame.start, frame.size, frame.depth)[i] :
                    i \in 1..Len(PermuteCalls(switches, k, frame.start, frame.size,
                                              frame.depth))} :
          frame' = [fn |-> frame.fn, start |-> c.start, size |-> c.size,
                    depth |-> c.depth, parent |-> c.parent]
    /\ UNCHANGED <<netVars, groupVars, routeVars, pairVars, waksVars>>

NextCalls == GenerateCall \/ PermuteCall

SpecCalls == InitCalls /\ [][NextCalls]_vars

(***************************************************************************)
(* C14: for n >= 0 and k >= 2 the recursions of set_random_switches and    *)
(* apply_permutation end: every recursive call is made on a size strictly  *)
(* smaller than the size of the call that makes it, and every call at      *)
(* depth d >= 1 has k^d < n.                                               *)
(***************************************************************************)
C14_RecursionShrinks ==
    (frame # <<>> /\ frame.depth >= 1) =>
        /\ frame.size >= 1
        /\ frame.size < frame.parent
        /\ k ^ frame.depth < n

C14_Witness ==
    /\ frame # <<>>
    /\ frame.fn = "_permute_recursive"
    /\ frame.depth = 3
    /\ frame.size > k
    /\ frame.size < frame.parent
    /\ frame.start > 0

(***************************************************************************)
(* The lookups of _permute_recursive with the length of what each looked   *)
(* up switch permutes: the region for a base switch, the chunk for an      *)
(* input switch, the elements collected at pos for an output switch.       *)
(***************************************************************************)
RECURSIVE LookupLens(_, _, _, _, _)
LookupLens(sw, kk, start, sz, depth) ==
    IF depth > RecursionLimit \/ sz <= 1 THEN {}
    ELSE IF sz <= kk THEN {[key |-> <<depth, start, "base">>, len |-> sz]}
    ELSE IF kk = 0 THEN {}
    ELSE
        LET gs == ApplyInputSwitches(sw, kk, Range(sz), start, depth)
            slots == 0..(SeqMax([j \in 1..kk |-> Len(gs[j])]) - 1)
            calls == PermuteCalls(sw, kk, start, sz, depth)
        IN {[key |-> <<depth, start + i, "input">>,
             len |-> Len(SubSeq(Range(sz), i + 1, Min(i + kk, sz)))] :
                i \in {c * kk : c \in 0..((sz - 1) \div kk)}}
           \cup {[key |-> <<depth, start, "output", pos>>,
                  len |-> Len(CollectSlot(gs, pos, 1))] :
                    pos \in {p \in slots : Len(CollectSlot(gs, p, 1)) # 1}}
           \cup UNION {LookupLens(sw, kk, calls[c].start, calls[c].size, calls[c].depth) :
                          c \in 1..Len(calls)}

(***************************************************************************)
(* C15: on a table built by set_random_switches for the same (n, k), the   *)
(* keys apply_permutation looks up are the keys the build recorded, and    *)
(* every switch it finds has the length of the region, chunk or slot it    *)
(* permutes: no lookup falls back on its identity default.                 *)
(***************************************************************************)
C15_BuildApplyConsistent ==
    (built /\ n >= 0 /\ k >= 2) =>
        /\ {l.key : l \in LookupLens(switches, k, 0, n, 0)} = DOMAIN switches
        /\ LookedUp(k, 0, n, 0) = DOMAIN switches
        /\ \A l \in LookupLens(switches, k, 0, n, 0) :
              /\ l.key \in DOMAIN switches
              /\ Len(switches[l.key]) = l.len
        /\ (Applied => exc = "none")

C15_Witness ==
    /\ built /\ k >= 2 /\ n > k
    /\ Applied /\ exc = "none"
    /\ result # passed
    /\ \E l1, l2, l3 \in LookupLens(switches, k, 0, n, 0) :
          /\ l1.key[3] = "input" /\ l1.len < k
          /\ l2.key[3] = "output" /\ l2.len >= 2
          /\ l3.key[3] = "base" /\ l3.key[1] = 1
          /\ \A l \in {l1, l2, l3} : Len(switches[l.key]) = l.len

(***************************************************************************)
(* C16: after _apply_input_switches on a region of size > k, group j holds *)
(* _calculate_group_sizes(size)[j] elements, for every j in 0..k-1.        *)
(***************************************************************************)
C16_GroupCounts ==
    (frame # <<>> /\ frame.fn = "_permute_recursive" /\ frame.size > k) =>
        LET gs == ApplyInputSwitches(switches, k, Range(frame.size), frame.start,
                                     frame.depth)
        IN /\ Len(gs) = k
           /\ \A j \in 1..k : Len(gs[j]) = CalculateGroupSizes(k, frame.size)[j]

C16_Witness ==
    /\ frame # <<>> /\ frame.fn = "_permute_recursive"
    /\ built /\ k = 3 /\ frame.size = 7 /\ frame.depth = 1 /\ frame.start > 0
    /\ LET gs == ApplyInputSwitches(switches, k, Range(frame.size), frame.start,
                                    frame.depth)
       IN /\ <<Len(gs[1]), Len(gs[2]), Len(gs[3])>> = <<3, 2, 2>>
          /\ gs[1] # <<0, 3, 6>>

(***************************************************************************)
(* Every call of _permute_recursive an apply_permutation makes: the first  *)
(* one and, from each, the calls it makes itself.                          *)
(***************************************************************************)
RECURSIVE Regions(_, _, _, _, _)
Regions(sw, kk, start, sz, depth) ==
    LET calls == PermuteCalls(sw, kk, start, sz, depth)
    IN {[start |-> start, size |-> sz, depth |-> depth]}
       \cup UNION {Regions(sw, kk, calls[c].start, calls[c].size, calls[c].depth) :
                      c \in 1..Len(calls)}

(***************************************************************************)
(* C17: _apply_input_switches is a bijection from the positions of the     *)
(* region onto (group, slot) pairs: the element in slot c of a group comes *)
(* from the c-th chunk, a chunk sends its elements to distinct groups, and *)
(* no two elements share a (group, slot).                                  *)
(***************************************************************************)
C17_DistributeBijection ==
    (built /\ n >= 0 /\ k >= 2) =>
        \A c \in {r \in Regions(switches, k, 0, n, 0) : r.size > k} :
            LET gs == ApplyInputSwitches(switches, k, Range(c.size), c.start, c.depth)
                at(pos) == {js \in (1..k) \X (1..c.size) :
                               js[2] <= Len(gs[js[1]]) /\ gs[js[1]][js[2]] = pos}
            IN /\ \A j \in 1..k : \A slot \in 1..Len(gs[j]) :
                     /\ (slot - 1) * k <= gs[j][slot]
                     /\ gs[j][slot] < Min(slot * k, c.size)
               /\ \A pos \in 0..(c.size - 1) : Cardinality(at(pos)) = 1

C17_Witness ==
    /\ built /\ k >= 2 /\ n > k /\ n % k # 0
    /\ op = "apply_permutation" /\ passed = Range(n) /\ exc = "none"
    /\ LET gs == ApplyInputSwitches(switches, k, passed, 0, 0)
       IN /\ gs[1][1] # 0
          /\ Len(gs[1]) > Len(gs[k])
          /\ gs[1][Len(gs[1])] = n - 1

(***************************************************************************)
(* C18: a call _permute_recursive(array, start, size, depth) changes only  *)
(* array[start:start+size]: every position outside the region keeps its    *)
(* value, and the region holds afterwards the values it held before, each  *)
(* as many times.                                                          *)
(***************************************************************************)
C18_RegionFrame ==
    (Applied /\ exc = "none") =>
        \A c \in Regions(switches, k, 0, n, 0) :
            LET r == PermuteRecursive(switches, k, passed, c.start, c.size, c.depth)
                inside == (c.start + 1)..(c.start + c.size)
            IN /\ r.exc = "none"
               /\ Len(r.array) = Len(passed)
               /\ \A i \in (1..Len(passed)) \ inside : r.array[i] = passed[i]
               /\ \A v \in {passed[i] : i \in inside} :
                     Cardinality({i \in inside : r.array[i] = v})
                         = Cardinality({i \in inside : passed[i] = v})

C18_Witness ==
    /\ built /\ Applied /\ exc = "none"
    /\ passed = Range(n)
    /\ \E c \in Regions(switches, k, 0, n, 0) :
          /\ c.depth = 1 /\ c.start > 0 /\ c.size >= 2
          /\ PermuteRecursive(switches, k, passed, c.start, c.size, c.depth).array # passed

(***************************************************************************)
(* C19: at every node of size > k the build records an Output switch for   *)
(* slot pos exactly when at least two groups have size > pos, of length    *)
(* the number of those groups; _apply_output_switches passes a slot of one *)
(* element through and permutes every other slot with its switch.          *)
(***************************************************************************)
C19_OutputSwitches ==
    (built /\ n >= 0 /\ k >= 2) =>
        \A c \in {r \in Regions(switches, k, 0, n, 0) : r.size > k} :
            LET sizes == CalculateGroupSizes(k, c.size)
                active(pos) == Cardinality({g \in 1..k : pos < sizes[g]})
                key(pos) == <<c.depth, c.start, "output", pos>>
                before(pos) == SeqSum([p \in 1..pos |-> active(p - 1)])
                gs == ApplyInputSwitches(switches, k, Range(c.size), c.start, c.depth)
                out == ApplyOutputSwitches(switches, gs, c.start, c.depth)
            IN /\ \A pos \in 0..c.size :
                     /\ key(pos) \in DOMAIN switches <=> active(pos) >= 2
                     /\ key(pos) \in DOMAIN switches => Len(switches[key(pos)]) = active(pos)
               /\ Len(out) = c.size
               /\ \A pos \in 0..(SeqMax(sizes) - 1) :
                     LET chunk == CollectSlot(gs, pos, 1)
                     IN /\ Len(chunk) = active(pos)
                        /\ Len(chunk) = 1 => out[before(pos) + 1] = chunk[1]
                        /\ Len(chunk) > 1 =>
                              \A i \in 1..Len(chunk) :
                                  out[before(pos) + i] = chunk[switches[key(pos)][i] + 1]

C19_Witness ==
    /\ built /\ k >= 2 /\ n > k
    /\ op = "apply_permutation" /\ passed = Range(n) /\ exc = "none"
    /\ <<0, 0, "output", 0>> \in DOMAIN switches
    /\ switches[<<0, 0, "output", 0>>] # Range(Len(switches[<<0, 0, "output", 0>>]))
    /\ <<0, 0, "output", 1>> \notin DOMAIN switches
    /\ CalculateGroupSizes(k, n)[1] = 2

(***************************************************************************)
(* A network object built more than once: set_random_switches called again *)
(* on an object that holds a built table.                                  *)
(***************************************************************************)
InitRebuild ==
    /\ n \in 0..RebuildMaxN
    /\ k \in 2..RebuildMaxK
    /\ switches = <<>>
    /\ depth_counter = 0
    /\ op = "init"
    /\ passed = <<>>
    /\ array = <<>>
    /\ result = <<>>
    /\ valid = FALSE
    /\ exc = "none"
    /\ permVec = None
    /\ built = FALSE
    /\ size = 0
    /\ groups = <<>>
    /\ input_pos = 0
    /\ final_pos = 0
    /\ nets = <<>>
    /\ tape = <<>>
    /\ frame = <<>>
    /\ waks = <<>>

\* self.switches = {} ; self.depth_counter = 0 ; the recursive dry run
SetRandomSwitchesAgain ==
    /\ built
    /\ \E ws \in {GenerateSwitchesRecursive(k, 0, n, 0)} :
          \E raws \in DrawSeqs(Executed(ws)) :
             /\ switches' = ApplyWrites(<<>>, Executed(ws), raws)
             /\ exc' = Raised(ws)
             /\ built' = (Raised(ws) = "none")
    /\ depth_counter' = 0
    /\ op' = "set_random_switches"
    /\ permVec' = None
    /\ passed' = <<>>
    /\ array' = <<>>
    /\ result' = <<>>
    /\ valid' = FALSE
    /\ UNCHANGED <<n, k>>
    /\ UNCHANGED <<groupVars, routeVars, pairVars, callVars, waksVars>>

NextRebuild ==
    \/ SetRandomSwitches
    \/ SetRandomSwitchesAgain
    \/ GetPermutation

SpecRebuild == InitRebuild /\ [][NextRebuild]_vars

(***************************************************************************)
(* C20: the topology does not depend on the draws.  Two runs of            *)
(* set_random_switches for the same (n, k) give tables with the same keys  *)
(* and the same switch length under each key, and a rebuild leaves no key  *)
(* of the build before it.                                                 *)
(***************************************************************************)
C20_FixedTopology ==
    [][(built /\ built' /\ op' = "set_random_switches") =>
          /\ DOMAIN switches' = DOMAIN switches
          /\ \A key \in DOMAIN switches : Len(switches'[key]) = Len(switches[key])
          /\ \A ws \in {GenerateSwitchesRecursive(k, 0, n, 0)} :
                DOMAIN switches' = {ws[i].key : i \in 1..Len(ws)}]_vars

C20_Witness ==
    /\ built /\ k >= 2 /\ n > k
    /\ op = "get_permutation" /\ permVec # None
    /\ \E ws \in {GenerateSwitchesRecursive(k, 0, n, 0)} :
          /\ DOMAIN switches = DOMAIN ZeroTable(ws)
          /\ \A key \in DOMAIN switches : Len(switches[key]) = Len(ZeroTable(ws)[key])
          /\ \A key \in DOMAIN switches :
                Len(switches[key]) >= 2 => switches[key] # ZeroTable(ws)[key]

(***************************************************************************)
(* C21: for 2 <= n <= k the built table holds exactly one switch, the Base *)
(* switch of depth 0 and start 0, and get_permutation returns that switch  *)
(* element for element.                                                    *)
(***************************************************************************)
C21_SingleBaseSwitch ==
    (built /\ 2 <= n /\ n <= k) =>
        /\ DOMAIN switches = {<<0, 0, "base">>}
        /\ Len(switches[<<0, 0, "base">>]) = n
        /\ (op = "get_permutation" =>
               /\ exc = "none"
               /\ result = switches[<<0, 0, "base">>])

C21_Witness ==
    /\ built /\ n = 3 /\ k = 3
    /\ op = "get_permutation"
    /\ switches = (<<0, 0, "base">> :> <<2, 0, 1>>)
    /\ result = <<2, 0, 1>>

(***************************************************************************)
(* C22: apply_permutation never modifies the array its caller passes: the  *)
(* caller's array holds after the call what it held at the call, in the    *)
(* same order, for every n, k and switch table, whether the call returns   *)
(* or raises.                                                              *)
(***************************************************************************)
C22_CallerArrayKept ==
    (op = "apply_permutation") => array = passed

C22_Witness ==
    /\ built /\ n > k /\ k >= 2
    /\ op = "apply_permutation" /\ exc = "none"
    /\ passed = Range(n)
    /\ result # passed
    /\ array = passed

(***************************************************************************)
(* C23: on a network whose table is empty (set_random_switches never       *)
(* called) every lookup falls back on the identity: apply_permutation      *)
(* returns the array in its order and get_permutation the identity, for    *)
(* n >= 0 and k >= 2.                                                      *)
(***************************************************************************)
C23_EmptyTableIdentity ==
    (~built /\ switches = <<>> /\ n >= 0 /\ k >= 2) =>
        /\ (Applied => exc = "none" /\ result = passed)
        /\ (op = "get_permutation" => exc = "none" /\ result = Range(n))
        /\ (op = "check_validity" => exc = "none" /\ valid)

C23_Witness ==
    /\ ~built /\ switches = <<>> /\ k >= 2 /\ n > k /\ n % k # 0
    /\ op = "get_permutation"
    /\ exc = "none"
    /\ result = Range(n)
    /\ LookedUp(k, 0, n, 0) # {}

(***************************************************************************)
(* The calls _route_recursive(pos, start, size, depth) that one route      *)
(* makes, the first one first.                                             *)
(***************************************************************************)
RECURSIVE RouteCalls(_, _, _, _, _, _)
RouteCalls(sw, kk, pos, start, sz, depth) ==
    << [pos |-> pos, start |-> start, size |-> sz, depth |-> depth] >>
    \o (IF sz <= 1 \/ sz <= kk THEN <<>>
        ELSE LET non_empty_groups == NonEmptyGroups(kk, sz)
                 local_pos == pos - start
                 group_idx == GroupIndex(non_empty_groups, local_pos)
                 new_group_idx == sw[<<depth, start, "groups">>][group_idx + 1]
                 new_offset == SeqSum(SubSeq(non_empty_groups, 1, new_group_idx))
                 within_group_pos ==
                     local_pos - SeqSum(SubSeq(non_empty_groups, 1, group_idx))
             IN RouteCalls(sw, kk, start + new_offset + within_group_pos,
                           start + new_offset, non_empty_groups[new_group_idx + 1],
                           depth + 1))

(***************************************************************************)
(* C24: the routing variant is not bijective for odd sizes: for a          *)
(* KWayNetwork with n = 3 and k = 2 there are draws of set_random_switches *)
(* for which get_permutation is not a permutation of 0..2 and              *)
(* check_validity returns False.                                           *)
(***************************************************************************)
C24_OddSizeNotBijective ==
    (n = 3 /\ k = 2) =>
        \E raws \in DrawSeqs(SetRandomRecursive(k, 0, n, 0)) :
            ~IsPermutation(KWayPermutation(ApplyWrites(<<>>, SetRandomRecursive(k, 0, n, 0),
                                                       raws), k, n), n)

C24_Witness ==
    /\ built /\ n = 3 /\ k = 2
    /\ op = "check_validity"
    /\ valid = FALSE
    /\ ~IsPermutation(KWayPermutation(switches, k, n), n)

(***************************************************************************)
(* C25: while a KWayNetwork routes an input i of 0..n-1 through a built    *)
(* table, every call _route_recursive(pos, start, size, depth) with        *)
(* size >= 1 has start <= pos < start + size; so the base case always      *)
(* finds pos in its switch and route(i) lies in 0..n-1.                    *)
(***************************************************************************)
C25_RouteStaysInRegion ==
    (built /\ op = "route") =>
        LET calls == RouteCalls(switches, k, input_pos, 0, n, 0)
            last == calls[Len(calls)]
        IN /\ \A c \in 1..Len(calls) :
                 calls[c].size >= 1 =>
                     /\ calls[c].start <= calls[c].pos
                     /\ calls[c].pos < calls[c].start + calls[c].size
           /\ (last.size > 1 =>
                 \E i \in 1..last.size :
                     switches[<<last.depth, last.start, "size", last.size>>][i]
                         = last.pos - last.start)
           /\ 0 <= final_pos /\ final_pos < n

(***************************************************************************)
(* The Waksman shufflers of src/test_waksman_python.py (WaksmanShuffle)    *)
(* and src/test_waksman_fixed.py (WaksmanShuffleFixed).                    *)
(*                                                                         *)
(* waksman_recursive reads nothing of the array but its length, and that   *)
(* only in the bounds checks: the switches a call goes through, in the     *)
(* order of the code, are a function of (start, stride, n, level).  A      *)
(* switch is [idx1, idx2, level, desc], level being the first argument of  *)
(* its get_switch_bit call (the position is idx1 in every call).           *)
(***************************************************************************)
DefaultSeed == 42
WaksSeeds == {DefaultSeed, 7}

\* get_switch_bit of both classes
GetSwitchBit(level, position) ==
    LET hash_val == (level * 1000 + position) % 100
    IN IF hash_val < 50 THEN 1 ELSE 0

\* array[idx1] = array[idx2], the second assignment lost.
SwapElements_overwrite(arr, idx1, idx2, swap) ==
    IF swap = 1 THEN [arr EXCEPT ![idx1 + 1] = arr[idx2 + 1]] ELSE arr

\* A compare-exchange: the switch looks at the two elements.
SwapElements_sorted(arr, idx1, idx2, swap) ==
    IF arr[idx1 + 1] > arr[idx2 + 1]
    THEN [arr EXCEPT ![idx1 + 1] = arr[idx2 + 1], ![idx2 + 1] = arr[idx1 + 1]]
    ELSE arr

\* swap_elements of both classes
SwapElements(arr, idx1, idx2, swap) ==
    IF swap = 1
    THEN [arr EXCEPT ![idx1 + 1] = arr[idx2 + 1], ![idx2 + 1] = arr[idx1 + 1]]
    ELSE arr

\* The switch of pair i of a group: idx1, idx2 as the three loops compute them.
PairSwitch(start, stride, i, level, desc) ==
    [idx1 |-> start + (i * 2) * stride,
     idx2 |-> start + (i * 2 + 1) * stride,
     level |-> level,
     desc |-> desc]

\* The single switch of a group of two.
BaseSwitch(start, stride, level) ==
    [idx1 |-> start, idx2 |-> start + stride, level |-> level, desc |-> <<"n=2 base">>]

\* half left as n // 2 for odd n.
HalfAdjusted_floor(nn) == nn \div 2

\* WaksmanShuffle: half after "if n % 2 == 1: half = (n + 1) // 2"
HalfAdjusted(nn) == IF nn % 2 = 1 THEN (nn + 1) \div 2 ELSE nn \div 2

\* WaksmanShuffle.waksman_recursive
RECURSIVE WaksmanRecursive(_, _, _, _)
WaksmanRecursive(start, stride, nn, level) ==
    IF nn <= 1 THEN <<>>
    ELSE IF nn = 2 THEN << BaseSwitch(start, stride, level) >>
    ELSE LET half == nn \div 2
             inputs == [j \in 1..half |->
                           PairSwitch(start, stride, j - 1, level, <<"input", j - 1>>)]
             half2 == HalfAdjusted(nn)
             top == WaksmanRecursive(start, stride * 2, half2, level + 1)
             bottom == WaksmanRecursive(start + stride, stride * 2,
                                        IF nn % 2 = 0 THEN half2 ELSE half2 - 1,
                                        level + 1)
             \* range(1, half): i = 1 .. half - 1
             outputs == [j \in 1..(half2 - 1) |->
                            PairSwitch(start, stride, j, level + 10000, <<"output", j - 1>>)]
         IN inputs \o top \o bottom \o outputs

\* WaksmanShuffleFixed: num_pairs
NumPairs(nn) == nn \div 2

\* WaksmanShuffleFixed: top_size
TopSize(nn) == IF nn % 2 = 0 THEN NumPairs(nn) ELSE NumPairs(nn) + 1

\* The bottom network given the unpaired element too.
BottomSize_ceil(nn) == (nn + 1) \div 2

\* WaksmanShuffleFixed: bottom_size
BottomSize(nn) == NumPairs(nn)

\* WaksmanShuffleFixed.waksman_recursive
RECURSIVE WaksmanRecursiveFixed(_, _, _, _)
WaksmanRecursiveFixed(start, stride, nn, level) ==
    IF nn <= 1 THEN <<>>
    ELSE IF nn = 2 THEN << BaseSwitch(start, stride, level) >>
    ELSE LET num_pairs == NumPairs(nn)
             inputs == [j \in 1..num_pairs |->
                           PairSwitch(start, stride, j - 1, level, <<"input", j - 1>>)]
             top == WaksmanRecursiveFixed(start, stride * 2, TopSize(nn), level + 1)
             bottom == WaksmanRecursiveFixed(start + stride, stride * 2, BottomSize(nn),
                                             level + 1)
             \* range(1, num_pairs): i = 1 .. num_pairs - 1
             outputs == [j \in 1..(num_pairs - 1) |->
                            PairSwitch(start, stride, j, level + 10000, <<"output", j - 1>>)]
         IN inputs \o top \o bottom \o outputs

\* The switches of shuffle(array) of an object of class cls: waksman_recursive(result, 0, 1, n, 0).
Switches(cls, arr) ==
    IF cls = "WaksmanShuffle" THEN WaksmanRecursive(0, 1, Len(arr), 0)
    ELSE WaksmanRecursiveFixed(0, 1, Len(arr), 0)

\* The bounds check in front of every switch.
OutOfBounds(idx2, arr) == idx2 >= Len(arr)

\* result = array.copy(): the caller's list is not the one the switches write.
CallerList(arr, work) == arr

\* The arrays the shufflers are given: 0, 1, ..., m-1; m, m-1, ..., 1 times ten; all sevens.
WaksArrays ==
    UNION {{Range(m), [j \in 1..m |-> 10 * (m - j + 1)], [j \in 1..m |-> 7]} :
              m \in 0..WaksMaxLen}

\* __init__ of both classes: two objects of class cls, the first with the default seed.
InitWaksObjects(cls) ==
    /\ n = 0 /\ k = 0 /\ switches = <<>> /\ depth_counter = 0
    /\ op = "init" /\ passed = <<>> /\ array = <<>> /\ result = <<>>
    /\ valid = FALSE /\ exc = "none" /\ permVec = None /\ built = FALSE
    /\ size = 0 /\ groups = <<>>
    /\ input_pos = 0 /\ final_pos = 0
    /\ nets = <<>> /\ tape = <<>>
    /\ frame = <<>>
    /\ \E s \in WaksSeeds :
          waks = [i \in Inst |->
                     [cls |-> cls,
                      seed |-> IF i = 1 THEN DefaultSeed ELSE s,
                      switch_history |-> <<>>,
                      pc |-> "idle",
                      passed |-> <<>>,
                      array |-> <<>>,
                      work |-> <<>>,
                      exc |-> "none",
                      result |-> None]]

InitWaksman == InitWaksObjects("WaksmanShuffle")

InitWaksmanFixed == InitWaksObjects("WaksmanShuffleFixed")

\* shuffle(array), up to the call of waksman_recursive
Shuffle(i, a) ==
    /\ waks[i].pc # "running"
    /\ waks' = [waks EXCEPT ![i] =
                   [@ EXCEPT !.switch_history = <<>>,
                             !.pc = "running",
                             !.passed = a,
                             !.array = a,
                             !.work = a,
                             !.exc = "none",
                             !.result = None]]
    /\ UNCHANGED <<netVars, groupVars, routeVars, pairVars, callVars>>

\* The next switch of waksman_recursive: its bounds check, the swap, the history entry.
SwitchStep(i) ==
    LET w == waks[i]
        todo == Switches(w.cls, w.passed)
    IN /\ w.pc = "running"
       /\ Len(w.switch_history) < Len(todo)
       /\ LET s == todo[Len(w.switch_history) + 1]
              swap == GetSwitchBit(s.level, s.idx1)
          IN IF OutOfBounds(s.idx2, w.work)
             THEN waks' = [waks EXCEPT ![i] =
                              [@ EXCEPT !.pc = "raised", !.exc = "IndexError"]]
             ELSE \E work \in {SwapElements(w.work, s.idx1, s.idx2, swap)} :
                      waks' = [waks EXCEPT ![i] =
                                  [@ EXCEPT !.work = work,
                                            !.array = CallerList(w.array, work),
                                            !.switch_history =
                                                Append(@, [idx1 |-> s.idx1, idx2 |-> s.idx2,
                                                           swap |-> swap, desc |-> s.desc])]]
       /\ UNCHANGED <<netVars, groupVars, routeVars, pairVars, callVars>>

\* waksman_recursive has returned: "return result"
ShuffleReturn(i) ==
    LET w == waks[i]
    IN /\ w.pc = "running"
       /\ Len(w.switch_history) = Len(Switches(w.cls, w.passed))
       /\ waks' = [waks EXCEPT ![i] = [@ EXCEPT !.pc = "returned", !.result = w.work]]
       /\ UNCHANGED <<netVars, groupVars, routeVars, pairVars, callVars>>

NextWaksman ==
    \/ \E i \in Inst, a \in WaksArrays : Shuffle(i, a)
    \/ \E i \in Inst : SwitchStep(i)
    \/ \E i \in Inst : ShuffleReturn(i)

SpecWaksman == InitWaksman /\ [][NextWaksman]_vars

SpecWaksmanFixed == InitWaksmanFixed /\ [][NextWaksman]_vars

(***************************************************************************)
(* C26: for every odd array length n >= 3, WaksmanShuffle.shuffle does not *)
(* return: as long as it runs, every switch done was within bounds and a   *)
(* switch whose second index is >= n is still ahead, and when it stops it  *)
(* stops at such a switch with IndexError.                                 *)
(***************************************************************************)
C26_OddLengthRaises ==
    \A i \in Inst :
        LET w == waks[i]
            len == Len(w.passed)
            todo == Switches(w.cls, w.passed)
            done == Len(w.switch_history)
        IN (w.pc # "idle" /\ len >= 3 /\ len % 2 = 1) =>
              /\ w.pc # "returned"
              /\ w.result = None
              /\ \A j \in 1..done : w.switch_history[j].idx2 < len
              /\ \E j \in (done + 1)..Len(todo) : todo[j].idx2 >= len
              /\ (w.pc = "raised" => w.exc = "IndexError" /\ todo[done + 1].idx2 >= len)
              /\ (w.pc = "running" => w.exc = "none")

C26_Witness ==
    /\ waks # <<>>
    /\ waks[1].cls = "WaksmanShuffle"
    /\ waks[1].passed = <<0, 1, 2>>
    /\ waks[1].pc = "raised"
    /\ waks[1].exc = "IndexError"
    /\ Len(waks[1].switch_history) = 2
    /\ Switches("WaksmanShuffle", <<0, 1, 2>>)[3].idx2 = 3

(***************************************************************************)
(* C27: WaksmanShuffleFixed.shuffle never raises IndexError, for any array *)
(* length, and both indices of every switch_history entry (input, output   *)
(* and base switches) are < n; every switch still to come is within bounds *)
(* too, so the call runs to its return.                                    *)
(***************************************************************************)
C27_FixedStaysInBounds ==
    \A i \in Inst :
        LET w == waks[i]
            len == Len(w.passed)
            todo == Switches(w.cls, w.passed)
        IN /\ w.pc # "raised"
           /\ w.exc = "none"
           /\ \A j \in 1..Len(w.switch_history) :
                 /\ 0 <= w.switch_history[j].idx1 /\ w.switch_history[j].idx1 < len
                 /\ 0 <= w.switch_history[j].idx2 /\ w.switch_history[j].idx2 < len
           /\ (w.pc = "running" => \A j \in 1..Len(todo) : todo[j].idx2 < len)
           /\ (w.pc = "returned" => w.switch_history =
                                        [j \in 1..Len(todo) |->
                                            [idx1 |-> todo[j].idx1, idx2 |-> todo[j].idx2,
                                             swap |-> GetSwitchBit(todo[j].level, todo[j].idx1),
                                             desc |-> todo[j].desc]])

C27_Witness ==
    /\ waks # <<>>
    /\ waks[1].cls = "WaksmanShuffleFixed"
    /\ Len(waks[1].passed) = 7
    /\ waks[1].pc = "returned"
    /\ \E a, b, c \in 1..Len(waks[1].switch_history) :
          /\ waks[1].switch_history[a].desc[1] = "input"
          /\ waks[1].switch_history[b].desc[1] = "output"
          /\ waks[1].switch_history[c].desc[1] = "n=2 base"
          /\ waks[1].switch_history[b].idx2 = 5

\* The elements of a list with their multiplicities.
Multiset(arr) == [v \in {arr[j] : j \in 1..Len(arr)} |-> Count(arr, v)]

(***************************************************************************)
(* C28: during WaksmanShuffleFixed.shuffle the working array is a          *)
(* permutation of the input array after every switch step, the returned    *)
(* array is that working array, and the caller's input array is unchanged. *)
(***************************************************************************)
C28_WorkIsPermutation ==
    \A i \in Inst :
        LET w == waks[i]
        IN (w.pc # "idle") =>
              /\ Len(w.work) = Len(w.passed)
              /\ Multiset(w.work) = Multiset(w.passed)
              /\ w.array = w.passed
              /\ (w.pc = "returned" =>
                     /\ w.result = w.work
                     /\ Multiset(w.result) = Multiset(w.passed))

C28_Witness ==
    /\ waks # <<>>
    /\ waks[1].cls = "WaksmanShuffleFixed"
    /\ waks[1].passed = <<0, 1, 2, 3, 4>>
    /\ waks[1].pc = "returned"
    /\ waks[1].result = <<4, 2, 0, 1, 3>>
    /\ waks[1].array = <<0, 1, 2, 3, 4>>

\* The positions the switches of a history move: the index list 0..m-1 after its swaps.
RECURSIVE Replay(_, _)
Replay(history, idx) ==
    IF history = <<>> THEN idx
    ELSE Replay(Tail(history),
                SwapElements(idx, Head(history).idx1, Head(history).idx2, Head(history).swap))

\* What an observer of the switches sees of a history.
Trace(history) ==
    [j \in 1..Len(history) |-> <<history[j].idx1, history[j].idx2, history[j].swap>>]

(***************************************************************************)
(* C29: WaksmanShuffleFixed.shuffle is deterministic and oblivious: two    *)
(* runs on arrays of the same length, whatever the elements and the        *)
(* constructor seeds, record the same (idx1, idx2, swap) sequence as far   *)
(* as both have come, and each moves its elements between the positions    *)
(* that sequence gives.                                                    *)
(***************************************************************************)
C29_ObliviousSwitches ==
    \A i, j \in Inst :
        LET wi == waks[i]
            wj == waks[j]
            common == Min(Len(wi.switch_history), Len(wj.switch_history))
        IN (wi.pc # "idle" /\ wj.pc # "idle" /\ Len(wi.passed) = Len(wj.passed)) =>
              /\ SubSeq(Trace(wi.switch_history), 1, common)
                     = SubSeq(Trace(wj.switch_history), 1, common)
              /\ (wi.pc = "returned" /\ wj.pc = "returned" =>
                     /\ Trace(wi.switch_history) = Trace(wj.switch_history)
                     /\ \E sigma \in {Replay(wi.switch_history, Range(Len(wi.passed)))} :
                           /\ wi.result = [p \in 1..Len(wi.passed) |-> wi.passed[sigma[p] + 1]]
                           /\ wj.result = [p \in 1..Len(wj.passed) |-> wj.passed[sigma[p] + 1]])

C29_Witness ==
    /\ waks # <<>>
    /\ waks[1].cls = "WaksmanShuffleFixed" /\ waks[2].cls = "WaksmanShuffleFixed"
    /\ waks[1].seed # waks[2].seed
    /\ waks[1].passed = <<0, 1, 2, 3, 4>>
    /\ waks[2].passed = <<50, 40, 30, 20, 10>>
    /\ waks[1].pc = "returned" /\ waks[2].pc = "returned"
    /\ waks[1].result = <<4, 2, 0, 1, 3>>
    /\ waks[2].result = <<10, 30, 50, 40, 20>>
    /\ Trace(waks[1].switch_history) = Trace(waks[2].switch_history)

\* The get_switch_bit calls looked at: a grid of levels and positions, with the
\* offset levels of the output switches, and every call of the shuffles in progress.
WaksLevels ==
    (0..WaksMaxLevel) \cup {10000 + l : l \in 0..WaksMaxLevel}
    \cup UNION {{Switches(waks[i].cls, waks[i].passed)[j].level :
                    j \in 1..Len(Switches(waks[i].cls, waks[i].passed))} : i \in Inst}
WaksPositions ==
    (0..WaksMaxPosition)
    \cup UNION {{Switches(waks[i].cls, waks[i].passed)[j].idx1 :
                    j \in 1..Len(Switches(waks[i].cls, waks[i].passed))} : i \in Inst}

(***************************************************************************)
(* C30: get_switch_bit(level, position) depends on both arguments: there   *)
(* are levels L1 # L2 and a position p at which the bits differ, and the   *)
(* bit of an output switch (level + 10000) differs from that of the input  *)
(* switch of the same level at some position.                              *)
(***************************************************************************)
C30_BitDependsOnLevel ==
    /\ \E L1, L2 \in WaksLevels, p \in WaksPositions :
          L1 # L2 /\ GetSwitchBit(L1, p) # GetSwitchBit(L2, p)
    /\ \E level \in 0..WaksMaxLevel, p \in WaksPositions :
          GetSwitchBit(level + 10000, p) # GetSwitchBit(level, p)

====
